---------------------------- MODULE Spec2Model ----------------------------
(***************************************************************************)
(* Model of the Express proxy of src/unnamed/part_000 (functions/index.js  *)
(* of the AIQ repository): the routes POST /transcribe and POST /feedback. *)
(*                                                                         *)
(* Strings are run-length encoded: a string is a sequence of runs          *)
(* [ch |-> c, n |-> k] standing for the character c repeated k times, so   *)
(* that split, toLowerCase, replace and length are computed as the code    *)
(* computes them, also on transcripts of tens of thousands of characters.  *)
(***************************************************************************)
EXTENDS Integers, Sequences, FiniteSets, TLC

VARIABLES OPENAI_API_KEY, now, files, treq, freq

vars == <<OPENAI_API_KEY, now, files, treq, freq>>

-----------------------------------------------------------------------------
(* Bounds of the model *)

\* concurrent /transcribe requests
NumRequests == 2
\* Date.now() ranges over 0..MaxClock
MaxClock == 1
\* a transcript has 0..MaxWords words taken from a vocabulary
MaxWords == 21
\* a transcript's last word is padded by 0..MaxPadSteps * PadStep characters
PadStep == 16500
MaxPadSteps == 2

-----------------------------------------------------------------------------
(* Program constants *)

\* length of the amazon_pm template literal without its two substitutions
PmTemplateLen == 1817
\* length of the standard template literal without its two substitutions
StdTemplateLen == 750
\* Math.min(4000, ...)
HardCap == 4000
\* 8192 - Math.ceil(inputTokenEstimate)
ContextWindow == 8192
\* wordCount < 20
MinWords == 20
\* uniqueWords.size < 5
MinUnique == 5

-----------------------------------------------------------------------------
(* Strings *)

Run(c, k) == [ch |-> c, n |-> k]

\* the characters /\s/ matches, among those the model uses
Whitespace == {" ", "\t", "\n"}

\* the characters [a-z0-9] matches
LowerAlnum ==
  {"a","b","c","d","e","f","g","h","i","j","k","l","m","n","o","p","q","r",
   "s","t","u","v","w","x","y","z","0","1","2","3","4","5","6","7","8","9"}

\* String.prototype.toLowerCase on one character
UpperMap == [c \in {"A","B","C","D","H","I"} |->
               CASE c = "A" -> "a" [] c = "B" -> "b" [] c = "C" -> "c"
                 [] c = "D" -> "d" [] c = "H" -> "h" [] c = "I" -> "i"]

LowerChar(c) == IF c \in DOMAIN UpperMap THEN UpperMap[c] ELSE c

\* the number of characters in the runs lo..hi of s
RECURSIVE RunsLen(_, _, _)
RunsLen(s, lo, hi) ==
  IF lo > hi THEN 0
  ELSE IF lo = hi THEN s[lo].n
  ELSE LET mid == (lo + hi) \div 2
       IN  RunsLen(s, lo, mid) + RunsLen(s, mid + 1, hi)

\* String.prototype.length
StrLen(s) == RunsLen(s, 1, Len(s))

\* the canonical run-length encoding: adjacent runs of one character merged
RECURSIVE Canon(_)
Canon(s) ==
  IF Len(s) < 2 THEN s
  ELSE IF s[1].ch = s[2].ch
       THEN Canon(<<Run(s[1].ch, s[1].n + s[2].n)>> \o SubSeq(s, 3, Len(s)))
       ELSE <<s[1]>> \o Canon(Tail(s))

\* w.toLowerCase()
ToLowerCase(s) == [i \in DOMAIN s |-> Run(LowerChar(s[i].ch), s[i].n)]

\* w.replace(/[^a-z0-9]/g, "")
StripNonAlnum(s) == SelectSeq(s, LAMBDA r : r.ch \in LowerAlnum)

\* transcription.split(/\s+/): the text before the first maximal run of
\* whitespace, then the split of the text after that run; leading or trailing
\* whitespace leaves an empty element
RECURSIVE Split(_)
Split(s) ==
  LET ws == {i \in DOMAIN s : s[i].ch \in Whitespace}
  IN  IF ws = {} THEN <<s>>
      ELSE LET i == CHOOSE a \in ws : \A b \in ws : a <= b
               j == CHOOSE a \in i..Len(s) :
                      /\ \A b \in i..a : b \in ws
                      /\ (a = Len(s) \/ (a + 1) \notin ws)
           IN  <<SubSeq(s, 1, i - 1)>> \o Split(SubSeq(s, j + 1, Len(s)))


-----------------------------------------------------------------------------
(* JSON values of a request body *)

Undefined == [type |-> "undefined"]
Str(s) == [type |-> "string", val |-> s]

\* !transcription
Falsy(v) == v.type = "undefined" \/ v.val = <<>>

\* `${question}`: an absent field is interpolated as the text "undefined"
Interpolate(v) ==
  IF v.type = "undefined"
  THEN <<Run("u",1), Run("n",1), Run("d",1), Run("e",1), Run("f",1),
         Run("i",1), Run("n",1), Run("e",1), Run("d",1)>>
  ELSE v.val

-----------------------------------------------------------------------------
(* /feedback: the validation of the transcript *)

\* transcription.split(/\s+/).filter((word) => word.length > 0)
Words(t) == SelectSeq(Split(t), LAMBDA w : StrLen(w) > 0)

\* variant of Normalize that omits toLowerCase()
NormalizeCaseSensitive(w) == Canon(StripNonAlnum(w))

\* w.toLowerCase().replace(/[^a-z0-9]/g, "")
Normalize(w) == Canon(StripNonAlnum(ToLowerCase(w)))

\* new Set(words.map(...))
UniqueWords(ws) == {Normalize(ws[i]) : i \in DOMAIN ws}

\* wordCount < 20 || uniqueWords.size < 5
TooShort(wordCount, uniqueSize) == wordCount < MinWords \/ uniqueSize < MinUnique

-----------------------------------------------------------------------------
(* /feedback: the prompt and the token budget *)

TemplateLen(feedbackType) ==
  IF feedbackType = "amazon_pm" THEN PmTemplateLen ELSE StdTemplateLen

\* prompt.length
PromptLength(feedbackType, question, transcription) ==
  TemplateLen(feedbackType) + StrLen(Interpolate(question))
    + StrLen(Interpolate(transcription))

\* Math.ceil(prompt.length / 4)
CeilQuarter(len) == (len + 3) \div 4

Min(a, b) == IF a < b THEN a ELSE b

\* Math.min(4000, 8192 - Math.ceil(inputTokenEstimate))
MaxTokens(len) == Min(HardCap, ContextWindow - CeilQuarter(len))

\* feedbackType === "amazon_pm" ? ... : ...
SystemRole(feedbackType) ==
  IF feedbackType = "amazon_pm" THEN "pm_coach" ELSE "coach"

-----------------------------------------------------------------------------
(* The request bodies the model posts to /feedback *)

\* "Hi", "hi", "hi!", "!!", "a", "b", "c"
Pool ==
  << <<Run("H",1), Run("i",1)>>, <<Run("h",1), Run("i",1)>>,
     <<Run("h",1), Run("i",1), Run("!",1)>>, <<Run("!",2)>>,
     <<Run("a",1)>>, <<Run("b",1)>>, <<Run("c",1)>> >>

\* the words of Pool with an index in S, in Pool's order
Vocabulary(S) ==
  LET idx == SelectSeq([i \in 1..Len(Pool) |-> i], LAMBDA i : i \in S)
  IN  [k \in DOMAIN idx |-> Pool[idx[k]]]

Layouts == {"plain", "ragged"}

\* the whitespace between two words, before the first and after the last
Separator(layout) ==
  IF layout = "plain" THEN <<Run(" ",1)>> ELSE <<Run(" ",2), Run("\n",1)>>
Leading(layout) == IF layout = "plain" THEN <<>> ELSE <<Run(" ",1)>>
Trailing(layout) == IF layout = "plain" THEN <<>> ELSE <<Run("\n",1)>>

\* the words lo..hi of a transcript that cycles through the vocabulary, with
\* separators between them
RECURSIVE Join(_, _, _, _)
Join(vocab, lo, hi, layout) ==
  IF lo > hi THEN <<>>
  ELSE IF lo = hi THEN vocab[((lo - 1) % Len(vocab)) + 1]
  ELSE LET mid == (lo + hi) \div 2
       IN  Join(vocab, lo, mid, layout) \o Separator(layout)
             \o Join(vocab, mid + 1, hi, layout)

\* a transcript of n words and pad further characters on its last word
Transcript(vocab, n, layout, pad) ==
  Leading(layout) \o Join(vocab, 1, n, layout)
    \o (IF pad = 0 THEN <<>> ELSE <<Run("x", pad)>>) \o Trailing(layout)

Transcriptions ==
  {Undefined, Str(<<>>)} \cup
  { Str(Transcript(Vocabulary(S), n, layout, k * PadStep)) :
      S \in (SUBSET (1..Len(Pool))) \ {{}}, n \in 0..MaxWords,
      layout \in Layouts, k \in 0..MaxPadSteps }

Questions == {Undefined, Str(<<Run("w",1), Run("h",1), Run("y",1), Run("?",1)>>)}

FeedbackTypes == {"amazon_pm", "undefined"}

Bodies ==
  [transcription : Transcriptions, question : Questions,
   feedbackType : FeedbackTypes]

-----------------------------------------------------------------------------
(* What the completion API answers *)

\* error.response.data: an empty body is the empty string, which is falsy
EmptyData == [empty |-> TRUE]
ErrorData == {[empty |-> FALSE, payload |-> "error_object"]}
CompletionData == [empty |-> FALSE, payload |-> "choices"]

\* an awaited axios.post either resolves (2xx), rejects with a response
\* (error.response set) or rejects without one (no answer at all)
FeedbackOutcomes ==
  {[kind |-> "ok", data |-> CompletionData], [kind |-> "network"]} \cup
  [kind : {"http"}, status : {429, 401, 503}, data : {EmptyData} \cup ErrorData]

\* error.message, which axios derives from the status code
ErrorMessage(o) ==
  IF o.kind = "http"
  THEN [text |-> "Request failed with status code", code |-> o.status]
  ELSE [text |-> "Network Error", code |-> 0]

-----------------------------------------------------------------------------
(* POST /feedback *)

NoCall == [sent |-> FALSE]
NoOutcome == [kind |-> "none"]
NoResponse == [status |-> 0, kind |-> "none"]

FeedbackIdle ==
  [pc |-> "idle", body |-> [transcription |-> Undefined, question |-> Undefined,
                             feedbackType |-> "undefined"],
   calls |-> 0, call |-> NoCall, upstream |-> NoOutcome, resp |-> NoResponse]

\* res.status(400).json({error: "No transcription provided"})
NoTranscription == [status |-> 400, kind |-> "no_transcription"]

\* res.status(400).json({error: `... (${wordCount} words, ${uniqueWords.size} unique) ...`})
TooShortResponse(wordCount, uniqueSize) ==
  [status |-> 400, kind |-> "too_short", wordCount |-> wordCount,
   unique |-> uniqueSize]

\* res.json({choices: [{message: {content: "This is a simulated ..."}}]})
Simulated == [status |-> 200, kind |-> "simulated"]

\* variant of FeedbackSync that looks at the credential before the transcript
FeedbackSyncKeyFirst(body) ==
  IF ~OPENAI_API_KEY
  THEN [FeedbackIdle EXCEPT !.pc = "done", !.body = body, !.resp = Simulated]
  ELSE IF Falsy(body.transcription)
  THEN [FeedbackIdle EXCEPT !.pc = "done", !.body = body, !.resp = NoTranscription]
  ELSE LET words == Words(body.transcription.val)
           wordCount == Len(words)
           uniqueSize == Cardinality(UniqueWords(words))
           len == PromptLength(body.feedbackType, body.question,
                               body.transcription)
       IN  IF TooShort(wordCount, uniqueSize)
           THEN [FeedbackIdle EXCEPT !.pc = "done", !.body = body,
                                     !.resp = TooShortResponse(wordCount, uniqueSize)]
           ELSE [FeedbackIdle EXCEPT
                   !.pc = "awaiting", !.body = body, !.calls = 1,
                   !.call = [sent |-> TRUE, model |-> "gpt-4",
                             system |-> SystemRole(body.feedbackType),
                             promptLength |-> len,
                             max_tokens |-> MaxTokens(len)]]

\* the handler up to its await: the checks of the body, in the code's order,
\* then the request to the completion API
FeedbackSync(body) ==
  IF Falsy(body.transcription)
  THEN [FeedbackIdle EXCEPT !.pc = "done", !.body = body, !.resp = NoTranscription]
  ELSE LET words == Words(body.transcription.val)
           wordCount == Len(words)
           uniqueSize == Cardinality(UniqueWords(words))
       IN  IF TooShort(wordCount, uniqueSize)
           THEN [FeedbackIdle EXCEPT !.pc = "done", !.body = body,
                                     !.resp = TooShortResponse(wordCount, uniqueSize)]
           ELSE IF ~OPENAI_API_KEY
           THEN [FeedbackIdle EXCEPT !.pc = "done", !.body = body,
                                     !.resp = Simulated]
           ELSE LET len == PromptLength(body.feedbackType, body.question,
                                        body.transcription)
                IN  [FeedbackIdle EXCEPT
                       !.pc = "awaiting", !.body = body, !.calls = 1,
                       !.call = [sent |-> TRUE, model |-> "gpt-4",
                                 system |-> SystemRole(body.feedbackType),
                                 promptLength |-> len,
                                 max_tokens |-> MaxTokens(len)]]

\* the catch block of the handler
FeedbackCatch(o) ==
  IF o.kind = "http" /\ ~o.data.empty /\ o.status = 429
  THEN [status |-> 429, kind |-> "rate_limit",
        details |-> [src |-> "upstream_data", data |-> o.data]]
  ELSE IF o.kind = "http" /\ ~o.data.empty /\ o.status = 401
  THEN [status |-> 500, kind |-> "auth_error",
        details |-> [src |-> "literal"]]
  ELSE [status |-> 500, kind |-> "failed",
        details |-> [src |-> "error_message", message |-> ErrorMessage(o)]]

\* res.json(openaiResponse.data)
FeedbackPassThrough(o) == [status |-> 200, kind |-> "completion", data |-> o.data]

\* The two routes share no mutable state (a /feedback handler touches neither
\* the clock nor the files), so their interleavings add no behaviour: the
\* model runs the requests of one route at a time.
TranscribeQuiet == \A r \in 1..NumRequests : treq[r].pc = "idle"

PostFeedback ==
  /\ freq.pc = "idle"
  /\ TranscribeQuiet
  /\ \E body \in Bodies : freq' = FeedbackSync(body)
  /\ UNCHANGED <<OPENAI_API_KEY, now, files, treq>>

\* the await resolves (res.json(openaiResponse.data)) or rejects (catch)
FeedbackSettle(o) ==
  [freq EXCEPT !.pc = "done", !.upstream = o,
               !.resp = IF o.kind = "ok" THEN FeedbackPassThrough(o)
                        ELSE FeedbackCatch(o)]

FeedbackReply ==
  /\ freq.pc = "awaiting"
  /\ \E o \in FeedbackOutcomes : freq' = FeedbackSettle(o)
  /\ UNCHANGED <<OPENAI_API_KEY, now, files, treq>>

-----------------------------------------------------------------------------
(* POST /transcribe *)

Requests == 1..NumRequests

\* path.extname(file.originalname)
Extensions == {".webm", ".wav"}

\* response.data.text
Texts == {"transcript one", "transcript two"}

\* req.file
NoFile == [present |-> FALSE]
File(p) == [present |-> TRUE, path |-> p]

\* filename: Date.now() + path.extname(file.originalname), in os.tmpdir()
Filename(t, ext) == <<t, ext>>

TranscribeIdle ==
  [pc |-> "idle", file |-> NoFile, opened |-> FALSE, calls |-> 0,
   upstream |-> NoOutcome, resp |-> NoResponse]

\* res.status(400).json({error: "No audio file provided"})
NoAudioFile == [status |-> 400, kind |-> "error", error |-> "No audio file provided"]

\* res.json({text: "OpenAI API key is not set. Using mock response instead."})
MockText ==
  [status |-> 200, kind |-> "text",
   text |-> "OpenAI API key is not set. Using mock response instead."]

\* res.json({text: "Error calling OpenAI API. Using mock response instead."})
FallbackText ==
  [status |-> 200, kind |-> "text",
   text |-> "Error calling OpenAI API. Using mock response instead."]

\* res.json({text: response.data.text})
Transcribed(text) == [status |-> 200, kind |-> "text", text |-> text]

\* res.status(500).json({error: "Failed to transcribe audio", details: ...})
TranscribeFailed ==
  [status |-> 500, kind |-> "error", error |-> "Failed to transcribe audio"]

FeedbackQuiet == freq.pc = "idle"

\* upload.single("audio") with a file part: multer names the file after the
\* clock and writes it to the temporary directory, then calls the handler
Upload(r, ext, t) ==
  /\ treq[r].pc = "idle"
  /\ FeedbackQuiet
  /\ t >= now
  /\ now' = t
  /\ files' = files \cup {Filename(t, ext)}
  /\ treq' = [treq EXCEPT ![r].pc = "uploaded",
                          ![r].file = File(Filename(t, ext))]
  /\ UNCHANGED <<OPENAI_API_KEY, freq>>

\* upload.single("audio") without a file part: req.file stays undefined
PostWithoutFile(r) ==
  /\ treq[r].pc = "idle"
  /\ FeedbackQuiet
  /\ treq' = [treq EXCEPT ![r].pc = "uploaded"]
  /\ UNCHANGED <<OPENAI_API_KEY, now, files, freq>>

\* variant of TranscribeHandler that looks at the credential before req.file
TranscribeHandlerKeyFirst(r) ==
  /\ treq[r].pc = "uploaded"
  /\ treq' =
       IF ~OPENAI_API_KEY
       THEN [treq EXCEPT ![r].pc = "done", ![r].resp = MockText]
       ELSE IF ~treq[r].file.present
       THEN [treq EXCEPT ![r].pc = "done", ![r].resp = NoAudioFile]
       ELSE [treq EXCEPT ![r].pc = "awaiting", ![r].calls = @ + 1,
                         ![r].opened = (treq[r].file.path \in files)]
  /\ UNCHANGED <<OPENAI_API_KEY, now, files, freq>>

\* the handler up to its await; fs.createReadStream(req.file.path) can read
\* the file only if it is still there (opened)
TranscribeHandler(r) ==
  /\ treq[r].pc = "uploaded"
  /\ treq' =
       IF ~treq[r].file.present
       THEN [treq EXCEPT ![r].pc = "done", ![r].resp = NoAudioFile]
       ELSE IF ~OPENAI_API_KEY
       THEN [treq EXCEPT ![r].pc = "done", ![r].resp = MockText]
       ELSE [treq EXCEPT ![r].pc = "awaiting", ![r].calls = @ + 1,
                         ![r].opened = (treq[r].file.path \in files)]
  /\ UNCHANGED <<OPENAI_API_KEY, now, files, freq>>

\* the await resolves, which takes a file that could be read and sent:
\* fs.unlinkSync(req.file.path), which throws when the file is gone, and then
\* the outer catch (existsSync is false) answers 500
TranscribeResolved(r, text) ==
  /\ treq[r].pc = "awaiting"
  /\ treq[r].opened
  /\ IF treq[r].file.path \in files
     THEN /\ files' = files \ {treq[r].file.path}
          /\ treq' = [treq EXCEPT ![r].pc = "done",
                                  ![r].upstream = [kind |-> "ok", text |-> text],
                                  ![r].resp = Transcribed(text)]
     ELSE /\ files' = files
          /\ treq' = [treq EXCEPT ![r].pc = "done",
                                  ![r].upstream = [kind |-> "ok", text |-> text],
                                  ![r].resp = TranscribeFailed]
  /\ UNCHANGED <<OPENAI_API_KEY, now, freq>>

\* variant of TranscribeRejected that calls the upstream a second time
RetryOnRejected(r) ==
  /\ treq[r].pc = "awaiting"
  /\ IF treq[r].calls < 2
     THEN /\ treq' = [treq EXCEPT ![r].calls = @ + 1]
          /\ files' = files
     ELSE /\ files' = files \ {treq[r].file.path}
          /\ treq' = [treq EXCEPT ![r].pc = "done",
                                  ![r].upstream = [kind |-> "failed"],
                                  ![r].resp = FallbackText]
  /\ UNCHANGED <<OPENAI_API_KEY, now, freq>>

\* the await rejects (the upstream failed, or the file could not be read):
\* the inner catch unlinks the file if it exists and answers the fallback
TranscribeRejected(r) ==
  /\ treq[r].pc = "awaiting"
  /\ files' = files \ {treq[r].file.path}
  /\ treq' = [treq EXCEPT ![r].pc = "done",
                          ![r].upstream = [kind |-> "failed"],
                          ![r].resp = FallbackText]
  /\ UNCHANGED <<OPENAI_API_KEY, now, freq>>

-----------------------------------------------------------------------------
(* The server *)

Init ==
  /\ OPENAI_API_KEY \in BOOLEAN
  /\ now = 0
  /\ files = {}
  /\ treq = [r \in Requests |-> TranscribeIdle]
  /\ freq = FeedbackIdle

Next ==
  \/ \E r \in Requests, ext \in Extensions, t \in 0..MaxClock : Upload(r, ext, t)
  \/ \E r \in Requests : PostWithoutFile(r)
  \/ \E r \in Requests : TranscribeHandler(r)
  \/ \E r \in Requests, text \in Texts : TranscribeResolved(r, text)
  \/ \E r \in Requests : TranscribeRejected(r)
  \/ PostFeedback
  \/ FeedbackReply

Spec == Init /\ [][Next]_vars

-----------------------------------------------------------------------------
(* The words and tokens of a transcript as the specification describes     *)
(* them, defined on the text itself and not through split and replace.     *)

Alnum == LowerAlnum \cup DOMAIN UpperMap

\* the runs at which a whitespace-separated word starts
WordStarts(t) ==
  {i \in DOMAIN t : /\ t[i].ch \notin Whitespace
                    /\ (i = 1 \/ t[i - 1].ch \in Whitespace)}

\* the last run of the word that starts at run i
WordEnd(t, i) ==
  CHOOSE j \in i..Len(t) :
    /\ \A k \in i..j : t[k].ch \notin Whitespace
    /\ (j = Len(t) \/ t[j + 1].ch \in Whitespace)

\* the word's alphanumeric characters, case-folded
Token(t, i) ==
  LET w == SubSeq(t, i, WordEnd(t, i))
      alnum == SelectSeq(w, LAMBDA r : r.ch \in Alnum)
  IN  Canon([k \in DOMAIN alnum |-> Run(LowerChar(alnum[k].ch), alnum[k].n)])

WordCountOf(t) == Cardinality(WordStarts(t))
TokenCountOf(t) == Cardinality({Token(t, i) : i \in WordStarts(t)})

\* fewer than 20 words or fewer than 5 distinct tokens
Insufficient(t) == WordCountOf(t) < 20 \/ TokenCountOf(t) < 5

-----------------------------------------------------------------------------
(* Claims *)

Responded(r) == treq[r].pc # "done" /\ treq'[r].pc = "done"

\* C1: when the handler of a /transcribe request that uploaded a file sends
\* its response, the temporary file no longer exists, on every exit path
C1_TempFileRemovedOnResponse ==
  [][\A r \in Requests :
       (Responded(r) /\ treq'[r].file.present)
         => treq'[r].file.path \notin files']_vars

\* C2: a /feedback request with a non-empty transcription is answered 400,
\* with the word count and the unique-token count in the body and without an
\* upstream call, exactly when the transcript has fewer than 20 words or
\* fewer than 5 distinct case-folded alphanumeric tokens
C2_ValidationRejectsExactly ==
  (freq.pc # "idle" /\ ~Falsy(freq.body.transcription)) =>
    LET t == freq.body.transcription.val
    IN  /\ (freq.resp.status = 400) <=> Insufficient(t)
        /\ (freq.resp.status = 400) =>
             /\ freq.pc = "done"
             /\ freq.resp.kind = "too_short"
             /\ freq.resp.wordCount = WordCountOf(t)
             /\ freq.resp.unique = TokenCountOf(t)
             /\ freq.calls = 0

\* C2 witness: a 19-word transcript with at least 5 unique tokens was rejected
C2_Witness ==
  /\ freq.pc = "done"
  /\ freq.resp.kind = "too_short"
  /\ freq.resp.wordCount = 19
  /\ freq.resp.unique >= 5

\* C3: the max_tokens sent is at most 4000, equals 8192 - ceil(length / 4)
\* whenever that is below 4000, and is never negative
C3_MaxTokensBounded ==
  freq.call.sent =>
    LET budget == 8192 + ((0 - freq.call.promptLength) \div 4)
    IN  /\ freq.call.max_tokens <= 4000
        /\ (budget < 4000 => freq.call.max_tokens = budget)
        /\ freq.call.max_tokens >= 0

\* C4: an upstream 429 is answered 429 with the upstream error details,
\* whatever the upstream body
C4_RateLimitForwarded ==
  (freq.pc = "done" /\ freq.upstream.kind = "http" /\ freq.upstream.status = 429)
    => /\ freq.resp.status = 429
       /\ freq.resp.details.src = "upstream_data"
       /\ freq.resp.details.data = freq.upstream.data

\* C5: an upstream 401 is answered 500 with the fixed authentication-error
\* message, which carries neither the upstream status nor the upstream body,
\* whatever the upstream body
C5_AuthErrorOpaque ==
  (freq.pc = "done" /\ freq.upstream.kind = "http" /\ freq.upstream.status = 401)
    => /\ freq.resp.status = 500
       /\ freq.resp.kind = "auth_error"
       /\ freq.resp.details.src = "literal"

InFlight(r) == treq[r].pc \in {"uploaded", "awaiting"} /\ treq[r].file.present

\* C7: no two in-flight /transcribe requests have the same temporary file
C7_DistinctTempFiles ==
  \A r1, r2 \in Requests :
    (r1 # r2 /\ InFlight(r1) /\ InFlight(r2))
      => treq[r1].file.path # treq[r2].file.path

\* C8: every request makes at most one upstream call: exactly one once it
\* has reached the gateway, and none further after the upstream answered
C8_SingleAttempt ==
  /\ \A r \in Requests :
       /\ treq[r].calls <= 1
       /\ (treq[r].pc = "awaiting" => treq[r].calls = 1)
       /\ (treq[r].upstream.kind # "none" => treq[r].pc = "done" /\ treq[r].calls = 1)
  /\ freq.calls <= 1
  /\ (freq.pc = "awaiting" => freq.calls = 1)
  /\ (freq.upstream.kind # "none" => freq.pc = "done" /\ freq.calls = 1)

\* C8 witness: a /transcribe request answered after its one call failed
C8_Witness ==
  \E r \in Requests :
    treq[r].pc = "done" /\ treq[r].upstream.kind = "failed" /\ treq[r].calls = 1

\* C9: /feedback checks the transcription's presence, then its validity, then
\* the credential: without a credential a valid transcript gets the simulated
\* 200 payload and no upstream call, an absent or invalid one still gets 400
C9_CheckOrder ==
  freq.pc # "idle" =>
    LET absent == Falsy(freq.body.transcription)
        invalid == ~absent /\ Insufficient(freq.body.transcription.val)
    IN  /\ absent => (freq.resp = NoTranscription /\ freq.calls = 0)
        /\ invalid => (freq.resp.status = 400 /\ freq.calls = 0)
        /\ (~absent /\ ~invalid /\ ~OPENAI_API_KEY)
             => (freq.resp = Simulated /\ freq.calls = 0 /\ freq.pc = "done")
        /\ (~absent /\ ~invalid /\ OPENAI_API_KEY) => freq.calls = 1

\* C9 witness: no credential, a valid transcript, the simulated payload
C9_Witness ==
  ~OPENAI_API_KEY /\ freq.pc = "done" /\ freq.resp = Simulated

\* C10: a /transcribe request without a file is answered 400 with the error
\* "No audio file provided" and makes no upstream call
C10_NoFileRejected ==
  \A r \in Requests :
    (treq[r].pc \in {"awaiting", "done"} /\ ~treq[r].file.present)
      => /\ treq[r].pc = "done"
         /\ treq[r].resp.status = 400
         /\ treq[r].resp.error = "No audio file provided"
         /\ treq[r].calls = 0
         /\ treq[r].upstream.kind = "none"

\* C10 witness: a request without a file answered while a credential is set
C10_Witness ==
  \E r \in Requests :
    OPENAI_API_KEY /\ treq[r].pc = "done" /\ ~treq[r].file.present

=============================================================================
